---- MODULE Spec2Model ----
(***************************************************************************)
(* cc-session-stats (src/cli.mjs): the session scanner (scanSessions,       *)
(* addSession, readFirstLastLine, parseTimestamp, cleanProjectName) and the *)
(* statistics pipeline (analyze, buildJsonOutput, display).                 *)
(*                                                                          *)
(* Instants are integral milliseconds since the Unix epoch, as in a         *)
(* JavaScript Date.  A duration in hours is kept as its millisecond count   *)
(* (durationHours = durationMs / HOUR), so comparisons of hours are         *)
(* comparisons of exact rationals; IEEE-754 rounding is not modelled.       *)
(***************************************************************************)
EXTENDS Integers, Sequences, FiniteSets, TLC

VARIABLES
    pc,          \* scanSessions: the statement about to run
    projectDirs, \* the listing of <claudeDir>/projects
    pi,          \* index of projDir in projectDirs
    files,       \* the listing of the current project directory
    fi,          \* index of file in files (both loops over files)
    subFiles,    \* the listing of <file>/subagents
    si,          \* index of sf in subFiles
    fr,          \* addSession / readFirstLastLine locals of the call in progress
    handles,     \* number of FileHandles open()ed and not yet close()d
    sessions,    \* the sessions array of scanSessions
    result,      \* what scanSessions returned
    fsLeft,      \* entries the file system may still list
    tz,          \* the host's time zone rule
    now,         \* the clock readings of analyze (Date.now(), new Date())
    input,       \* the session list handed to analyze
    stats,       \* what analyze returned
    out          \* what main printed: the JSON document or the report

vars == <<pc, projectDirs, pi, files, fi, subFiles, si, fr, handles, sessions,
          result, fsLeft, tz, now, input, stats, out>>

scanVars == <<pc, projectDirs, pi, files, fi, subFiles, si, fr, handles,
              sessions, result, fsLeft>>

statVars == <<tz, now, input, stats, out>>

-----------------------------------------------------------------------------
(* Bounds of the model *)

\* directory entries under <claudeDir>/projects, at every depth together
MaxEntries == 4

-----------------------------------------------------------------------------
(* Program constants *)

HOUR == 3600000

DAY == 24 * HOUR

WEEK == 7 * DAY

MIN_FILE_SIZE == 50

HEAD_BYTES == 8192

TAIL_BYTES == 65536

Min(a, b) == IF a < b THEN a ELSE b

Max(a, b) == IF a > b THEN a ELSE b

-----------------------------------------------------------------------------
(* Strings read from a transcript.  A line of a file is a record whose      *)
(* fields stand for its text: its length in bytes, whether it is only       *)
(* whitespace, and what JSON.parse + new Date make of it.  A string cut out *)
(* of a file is a line with the byte range kept of it.                      *)

NullTs == [kind |-> "null", ms |-> 0]

InvalidDate == [kind |-> "invalid", ms |-> 0]

DateOf(t) == [kind |-> "date", ms |-> t]

\* a line {"timestamp": t, ...} of n bytes
JsonLine(n, t) == [len |-> n, blank |-> FALSE, ts |-> DateOf(t)]

\* a line that is not JSON, or JSON without a truthy timestamp / ts
PlainLine(n) == [len |-> n, blank |-> FALSE, ts |-> NullTs]

\* a line {"timestamp": "garbage"}: new Date gives an Invalid Date
BadDateLine(n) == [len |-> n, blank |-> FALSE, ts |-> InvalidDate]

\* an empty or whitespace-only line
BlankLine(n) == [len |-> n, blank |-> TRUE, ts |-> NullTs]

\* a file: its lines, and whether the last one ends with "\n"
File(ls, nl) == [lines |-> ls, nl |-> nl]

RECURSIVE SumLen(_)
SumLen(ls) == IF ls = <<>> THEN 0 ELSE Head(ls).len + SumLen(Tail(ls))

FileSize(f) ==
    IF f.lines = <<>> THEN 0
    ELSE SumLen(f.lines) + (Len(f.lines) - 1) + (IF f.nl THEN 1 ELSE 0)

\* byte offset of line i in the file
LineStart(f, i) == SumLen(SubSeq(f.lines, 1, i - 1)) + (i - 1)

Undefined == [line |-> BlankLine(0), from |-> 0, to |-> 0, def |-> FALSE]

Str(l, a, b) == [line |-> l, from |-> a, to |-> b, def |-> TRUE]

\* parseTimestamp: a cut line is no JSON text
parseTimestamp(s) ==
    IF s.def /\ s.from = 0 /\ s.to = s.line.len THEN s.line.ts ELSE NullTs

\* firstChunk up to its first "\n", or all of it
FirstLineOf(f) ==
    LET l == f.lines[1]
    IN  Str(l, 0, Min(l.len, HEAD_BYTES))

\* tailChunk.split("\n").filter(l => l.trim()): the indexes of the lines
\* with a non-blank piece inside the last readSize bytes
TailPieces(f) ==
    LET size == FileSize(f)
        cstart == size - Min(TAIL_BYTES, size)
    IN  { i \in 1..Len(f.lines) :
            /\ ~f.lines[i].blank
            /\ LineStart(f, i) + f.lines[i].len > cstart }

SetMax(S) == CHOOSE x \in S : \A y \in S : y <= x

\* mutant of LastLineOf: without the fallback to firstLine
LastLineNoFallback(f, firstLine) ==
    LET size == FileSize(f)
        cstart == size - Min(TAIL_BYTES, size)
        P == TailPieces(f)
    IN  IF P = {} THEN Undefined
        ELSE LET i == SetMax(P)
                 l == f.lines[i]
             IN  Str(l, Max(cstart - LineStart(f, i), 0), l.len)

\* lines[lines.length - 1] || firstLine
LastLineOf(f, firstLine) ==
    LET size == FileSize(f)
        cstart == size - Min(TAIL_BYTES, size)
        P == TailPieces(f)
    IN  IF P = {} THEN firstLine
        ELSE LET i == SetMax(P)
                 l == f.lines[i]
             IN  Str(l, Max(cstart - LineStart(f, i), 0), l.len)

-----------------------------------------------------------------------------
(* The file system, as the scan sees it.  Every reply of readdir, stat,     *)
(* open and read is the environment's choice at the moment of the call.     *)

TwoLines(a, b) == File(<<JsonLine(60, a), JsonLine(60, b)>>, TRUE)

EmptyFile == File(<<>>, FALSE)

OneByteFile == File(<<PlainLine(1)>>, FALSE)

\* the transcripts a stat may find
FileChoices ==
    { EmptyFile,
      File(<<JsonLine(48, 0)>>, TRUE),
      File(<<JsonLine(49, 0)>>, TRUE),
      TwoLines(HOUR, 0),
      TwoLines(0, WEEK - 1),
      TwoLines(0, WEEK),
      File(<<JsonLine(60, 0), PlainLine(60)>>, TRUE),
      File(<<BadDateLine(60), JsonLine(60, HOUR)>>, TRUE),
      File(<<JsonLine(9000, 0), JsonLine(60, HOUR)>>, TRUE),
      File(<<JsonLine(60, HOUR), JsonLine(60, 3 * HOUR), BlankLine(0)>>, TRUE) }

\* what open() finds of a file that stat saw as f: the transcript may have
\* been truncated in between
AtOpen(f) == {f, EmptyFile, OneByteFile}

\* a directory name: the string, its split("-").filter(Boolean) and whether
\* it startsWith("-tmp")
DirName(raw, parts, tmp) == [raw |-> raw, parts |-> parts, tmp |-> tmp]

ProjDirNames ==
    { DirName("-home-u-projects-foo", <<"home", "u", "projects", "foo">>, FALSE),
      DirName("-tmp-x", <<"tmp", "x">>, TRUE),
      DirName("-srv-app", <<"srv", "app">>, FALSE) }

\* a project label: the segments that join("-") strings together
cleanProjectName(dirName) ==
    IF dirName.tmp THEN <<"/tmp">>
    ELSE IF dirName.parts # <<>> /\ dirName.parts[1] = "home"
            /\ Len(dirName.parts) >= 2
         THEN LET rest == SubSeq(dirName.parts, 3, Len(dirName.parts))
              IN  IF rest = <<>> THEN <<"~">>
                  ELSE LET r == IF rest[1] = "projects" THEN Tail(rest) ELSE rest
                       IN  IF r = <<>> THEN <<"~">> ELSE r
         ELSE <<dirName.raw>>

SeqsUpTo(S, n) == UNION { [1..k -> S] : k \in 0..n }

\* an entry of a project directory: a transcript <id>.jsonl, another file,
\* or a directory <id> (which may hold subagents/)
EntryKinds == {"jsonl", "other", "dir"}

SubEntryKinds == {"jsonl", "other"}

-----------------------------------------------------------------------------
(* scanSessions *)

NoFrame ==
    [project |-> <<>>, ret |-> "none", size |-> 0, file |-> EmptyFile,
     firstLine |-> Undefined, lastLine |-> Undefined, res |-> "none"]

Session(project, startTs, endTs, size) ==
    [project |-> project, start |-> startTs.ms, end |-> endTs.ms,
     durationMs |-> endTs.ms - startTs.ms, sizeBytes |-> size]

InitScan ==
    /\ pc = "start"
    /\ projectDirs = <<>>
    /\ pi = 1
    /\ files = <<>>
    /\ fi = 1
    /\ subFiles = <<>>
    /\ si = 1
    /\ fr = NoFrame
    /\ handles = 0
    /\ sessions = <<>>
    /\ result = <<>>
    /\ fsLeft = MaxEntries

\* projectDirs = await readdir(projectsDir), or catch { return sessions }
ReadProjectsDir ==
    /\ pc = "start"
    /\ \/ /\ pc' = "done"
          /\ result' = sessions
          /\ UNCHANGED projectDirs
          /\ UNCHANGED fsLeft
       \/ /\ \E dirs \in SeqsUpTo(ProjDirNames, fsLeft) :
                /\ projectDirs' = dirs
                /\ fsLeft' = fsLeft - Len(dirs)
          /\ pc' = "proj"
          /\ UNCHANGED result
    /\ UNCHANGED <<pi, files, fi, subFiles, si, fr, handles, sessions>>
    /\ UNCHANGED statVars

\* the for loop over projectDirs: stat(projPath), continue unless a directory
ProjStat ==
    /\ pc = "proj"
    /\ \/ /\ pi > Len(projectDirs)
          /\ pc' = "sort"
          /\ UNCHANGED pi
       \/ /\ pi <= Len(projectDirs)
          /\ \E st \in {"dir", "file", "error"} :
                IF st = "dir"
                THEN pc' = "list" /\ UNCHANGED pi
                ELSE pc' = "proj" /\ pi' = pi + 1
    /\ UNCHANGED <<projectDirs, files, fi, subFiles, si, fr, handles, sessions,
                   result, fsLeft>>
    /\ UNCHANGED statVars

\* mutant of ProjListFailed: readdir(projPath) outside any try
ProjListThrows ==
    /\ pc' = "threw"
    /\ UNCHANGED <<pi, files, fi, fsLeft>>

\* catch { continue } of readdir(projPath)
ProjListFailed ==
    /\ pc' = "proj"
    /\ pi' = pi + 1
    /\ UNCHANGED <<files, fi, fsLeft>>

\* files = await readdir(projPath)
ProjList ==
    /\ pc = "list"
    /\ \/ ProjListFailed
       \/ /\ \E fs \in SeqsUpTo(EntryKinds, fsLeft) :
                /\ files' = fs
                /\ fsLeft' = fsLeft - Len(fs)
          /\ fi' = 1
          /\ pc' = "main"
          /\ UNCHANGED pi
    /\ UNCHANGED <<projectDirs, subFiles, si, fr, handles, sessions, result>>
    /\ UNCHANGED statVars

\* the first loop over files: addSession for each *.jsonl
MainLoop ==
    /\ pc = "main"
    /\ IF fi > Len(files)
       THEN pc' = "sub" /\ fi' = 1 /\ UNCHANGED fr
       ELSE IF files[fi] = "jsonl"
            THEN /\ pc' = "stat"
                 /\ fr' = [NoFrame EXCEPT !.ret = "main",
                              !.project = cleanProjectName(projectDirs[pi])]
                 /\ UNCHANGED fi
            ELSE pc' = "main" /\ fi' = fi + 1 /\ UNCHANGED fr
    /\ UNCHANGED <<projectDirs, pi, files, subFiles, si, handles, sessions,
                   result, fsLeft>>
    /\ UNCHANGED statVars

\* the second loop over files: stat(subPath), continue unless a directory
SubStat ==
    /\ pc = "sub"
    /\ \/ /\ fi > Len(files)
          /\ pc' = "proj"
          /\ pi' = pi + 1
          /\ files' = <<>>
          /\ fi' = 1
       \/ /\ fi <= Len(files)
          /\ \E st \in IF files[fi] = "dir" THEN {"dir", "file", "error"}
                                             ELSE {"error"} :
                IF st = "dir"
                THEN pc' = "sublist" /\ UNCHANGED fi
                ELSE pc' = "sub" /\ fi' = fi + 1
          /\ UNCHANGED <<pi, files>>
    /\ UNCHANGED <<projectDirs, subFiles, si, fr, handles, sessions,
                   result, fsLeft>>
    /\ UNCHANGED statVars

\* catch {} of the try around readdir(subPath) and its loop
SubListFailed ==
    /\ pc' = "sub"
    /\ fi' = fi + 1
    /\ UNCHANGED <<subFiles, si, fsLeft>>

\* subFiles = await readdir(subPath)
SubList ==
    /\ pc = "sublist"
    /\ \/ SubListFailed
       \/ /\ \E fs \in SeqsUpTo(SubEntryKinds, fsLeft) :
                /\ subFiles' = fs
                /\ fsLeft' = fsLeft - Len(fs)
          /\ si' = 1
          /\ pc' = "subfiles"
          /\ UNCHANGED fi
    /\ UNCHANGED <<projectDirs, pi, files, fr, handles, sessions, result>>
    /\ UNCHANGED statVars

\* the loop over subFiles: addSession for each *.jsonl
SubLoop ==
    /\ pc = "subfiles"
    /\ IF si > Len(subFiles)
       THEN /\ pc' = "sub"
            /\ fi' = fi + 1
            /\ subFiles' = <<>>
            /\ si' = 1
            /\ UNCHANGED fr
       ELSE IF subFiles[si] = "jsonl"
            THEN /\ pc' = "stat"
                 /\ fr' = [NoFrame EXCEPT !.ret = "sub",
                              !.project = cleanProjectName(projectDirs[pi])]
                 /\ UNCHANGED <<fi, si, subFiles>>
            ELSE pc' = "subfiles" /\ si' = si + 1 /\ UNCHANGED <<fi, fr, subFiles>>
    /\ UNCHANGED <<projectDirs, pi, files, handles, sessions, result, fsLeft>>
    /\ UNCHANGED statVars

-----------------------------------------------------------------------------
(* addSession and readFirstLastLine, one await at a time *)

\* addSession returns to the loop that called it
Return ==
    /\ fr' = NoFrame
    /\ IF fr.ret = "main"
       THEN pc' = "main" /\ fi' = fi + 1 /\ si' = si
       ELSE pc' = "subfiles" /\ si' = si + 1 /\ fi' = fi

\* readFirstLastLine leaves its try block with outcome r ("null", "result"
\* or "throw"): the finally block runs first.  Only a result is looked at
\* afterwards, and the buffers are garbage from here on.
Leave(r, first, last) ==
    /\ fr' = IF r = "result"
             THEN [fr EXCEPT !.res = r, !.firstLine = first, !.lastLine = last,
                             !.file = EmptyFile]
             ELSE [NoFrame EXCEPT !.res = r, !.ret = fr.ret,
                                  !.project = fr.project]
    /\ pc' = "close"
    /\ UNCHANGED <<fi, si>>

\* fileStat = await stat(filePath).catch(() => null);
\* if (!fileStat || fileStat.size < 50) return
TooSmall(size) == size < MIN_FILE_SIZE

Stat ==
    /\ pc = "stat"
    /\ \/ Return
       \/ \E f \in FileChoices :
             IF TooSmall(FileSize(f))
             THEN Return
             ELSE /\ fr' = [fr EXCEPT !.size = FileSize(f), !.file = f]
                  /\ pc' = "open"
                  /\ UNCHANGED <<fi, si>>
    /\ UNCHANGED <<projectDirs, pi, files, subFiles, handles, sessions, result,
                   fsLeft>>
    /\ UNCHANGED statVars

\* fh = await open(filePath, 'r'): a failure is caught by addSession
Open ==
    /\ pc = "open"
    /\ \/ Return /\ UNCHANGED handles
       \/ /\ \E g \in AtOpen(fr.file) : fr' = [fr EXCEPT !.file = g]
          /\ handles' = handles + 1
          /\ pc' = "readHead"
          /\ UNCHANGED <<fi, si>>
    /\ UNCHANGED <<projectDirs, pi, files, subFiles, sessions, result, fsLeft>>
    /\ UNCHANGED statVars

\* mutant of ReturnNull: the early return placed before the try block
ReturnNullNoClose ==
    /\ fr' = [NoFrame EXCEPT !.res = "null", !.ret = fr.ret,
                             !.project = fr.project]
    /\ pc' = "decide"
    /\ UNCHANGED <<fi, si>>

\* if (firstBytes === 0) return null
ReturnNull == Leave("null", Undefined, Undefined)

\* fh.read(buf, 0, 8192, 0) and the first line
ReadHead ==
    /\ pc = "readHead"
    /\ \/ Leave("throw", Undefined, Undefined)
       \/ IF Min(HEAD_BYTES, FileSize(fr.file)) = 0
          THEN ReturnNull
          ELSE /\ fr' = [fr EXCEPT !.firstLine = FirstLineOf(fr.file)]
               /\ pc' = "fstat"
               /\ UNCHANGED <<fi, si>>
    /\ UNCHANGED <<projectDirs, pi, files, subFiles, handles, sessions, result,
                   fsLeft>>
    /\ UNCHANGED statVars

\* fileStat = await fh.stat(); if (fileSize < 2) return {firstLine, lastLine: firstLine}
FStat ==
    /\ pc = "fstat"
    /\ \/ Leave("throw", Undefined, Undefined)
       \/ IF FileSize(fr.file) < 2
          THEN Leave("result", fr.firstLine, fr.firstLine)
          ELSE pc' = "readTail" /\ UNCHANGED <<fr, fi, si>>
    /\ UNCHANGED <<projectDirs, pi, files, subFiles, handles, sessions, result,
                   fsLeft>>
    /\ UNCHANGED statVars

\* fh.read(tailBuf, 0, readSize, fileSize - readSize) and the last line
ReadTail ==
    /\ pc = "readTail"
    /\ \/ Leave("throw", Undefined, Undefined)
       \/ Leave("result", fr.firstLine, LastLineOf(fr.file, fr.firstLine))
    /\ UNCHANGED <<projectDirs, pi, files, subFiles, handles, sessions, result,
                   fsLeft>>
    /\ UNCHANGED statVars

\* finally { await fh.close() }
Close ==
    /\ pc = "close"
    /\ handles' = handles - 1
    /\ pc' = "decide"
    /\ UNCHANGED <<projectDirs, pi, files, fi, subFiles, si, fr, sessions,
                   result, fsLeft>>
    /\ UNCHANGED statVars

\* mutant of Accepted: the 7-day limit taken inclusive
AcceptedUpToWeek(startTs, endTs) ==
    /\ startTs.kind = "date" /\ endTs.kind = "date"
    /\ endTs.ms - startTs.ms >= 0
    /\ endTs.ms - startTs.ms <= WEEK

\* if (startTs && endTs) { durationMs = endTs - startTs;
\*   if (durationMs >= 0 && durationMs < 7 * 24 * 60 * 60 * 1000) ... }
\* A Date is truthy even when invalid; a difference with an Invalid Date is
\* NaN, and every comparison with NaN is false.
Accepted(startTs, endTs) ==
    /\ startTs.kind # "null" /\ endTs.kind # "null"
    /\ startTs.kind = "date" /\ endTs.kind = "date"
    /\ endTs.ms - startTs.ms >= 0
    /\ endTs.ms - startTs.ms < WEEK

\* the rest of addSession: catch {} of a throw, if (!result) return, or
\* parse both lines and push the session if accepted
Decide ==
    /\ pc = "decide"
    /\ LET startTs == parseTimestamp(fr.firstLine)
           endTs == parseTimestamp(fr.lastLine)
       IN  IF fr.res = "result" /\ Accepted(startTs, endTs)
           THEN sessions' = Append(sessions,
                                   Session(fr.project, startTs, endTs, fr.size))
           ELSE UNCHANGED sessions
    /\ Return
    /\ UNCHANGED <<projectDirs, pi, files, subFiles, handles, result, fsLeft>>
    /\ UNCHANGED statVars

\* mutant of SortByStart: the array returned as the walk filled it
Unsorted(ss) == ss

\* sessions.sort((a, b) => a.start - b.start): the sort is stable
RECURSIVE Insert(_, _)
Insert(sorted, s) ==
    IF sorted = <<>> THEN <<s>>
    ELSE IF Head(sorted).start - s.start > 0
         THEN <<s>> \o sorted
         ELSE <<Head(sorted)>> \o Insert(Tail(sorted), s)

RECURSIVE SortByStart(_)
SortByStart(ss) ==
    IF ss = <<>> THEN <<>>
    ELSE Insert(SortByStart(SubSeq(ss, 1, Len(ss) - 1)), ss[Len(ss)])

\* return sessions.sort(...)
Sort ==
    /\ pc = "sort"
    /\ result' = SortByStart(sessions)
    /\ pc' = "done"
    /\ UNCHANGED <<projectDirs, pi, files, fi, subFiles, si, fr, handles,
                   sessions, fsLeft>>
    /\ UNCHANGED statVars

InitStatsIdle ==
    /\ tz = [at |-> 0, before |-> 0, after |-> 0]
    /\ now = 0
    /\ input = <<>>
    /\ stats = [kind |-> "none"]
    /\ out = [kind |-> "none"]

Init == InitScan /\ InitStatsIdle

Next ==
    \/ ReadProjectsDir
    \/ ProjStat
    \/ ProjList
    \/ MainLoop
    \/ SubStat
    \/ SubList
    \/ SubLoop
    \/ Stat
    \/ Open
    \/ ReadHead
    \/ FStat
    \/ ReadTail
    \/ Close
    \/ Decide
    \/ Sort

Spec == Init /\ [][Next]_vars

\* every await of the scan settles: the scan is not left suspended for ever
FairSpec == Spec /\ WF_vars(Next)

-----------------------------------------------------------------------------
(* readFirstLastLine on its own: one call, on a file of one line or on one *)
(* of the transcripts above                                                 *)

\* how far on either side of 0, of the head read and of the tail read the
\* lengths of the single lines go
MaxSlack == 2

LineLengths ==
    { n \in { b + k : b \in {0, HEAD_BYTES, TAIL_BYTES},
                      k \in (0 - MaxSlack)..MaxSlack } : n >= 0 }

\* the shortest line that JSON.parse reads a truthy ts from: {"ts":1}
MIN_JSON_LINE == 8

LinesOfLength(n) ==
    {BlankLine(n)}
    \cup (IF n >= 1 THEN {PlainLine(n)} ELSE {})
    \cup (IF n >= MIN_JSON_LINE THEN {JsonLine(n, HOUR)} ELSE {})

\* the files of one line, with and without a line terminator
SingleLineFiles ==
    { f \in { File(<<l>>, nl) :
                l \in UNION { LinesOfLength(n) : n \in LineLengths },
                nl \in BOOLEAN } :
        FileSize(f) > 0 }

ReaderFiles == SingleLineFiles \cup FileChoices

InitReader ==
    /\ pc = "open"
    /\ projectDirs = <<>>
    /\ pi = 1
    /\ files = <<>>
    /\ fi = 1
    /\ subFiles = <<>>
    /\ si = 1
    /\ \E f \in ReaderFiles :
          fr = [NoFrame EXCEPT !.ret = "main", !.size = FileSize(f),
                               !.file = f]
    /\ handles = 0
    /\ sessions = <<>>
    /\ result = <<>>
    /\ fsLeft = 0
    /\ InitStatsIdle

NextReader ==
    \/ Open
    \/ ReadHead
    \/ FStat
    \/ ReadTail
    \/ Close

SpecReader == InitReader /\ [][NextReader]_vars

-----------------------------------------------------------------------------
(* Dates.  A time zone rule is one offset before an instant and another    *)
(* from it on (a daylight-saving change; equal offsets: none).  A date key  *)
(* "YYYY-MM-DD" is kept as the count of days since 1970-01-01 that it       *)
(* names: for four-digit years the strings sort, compare and parse as       *)
(* these counts do.                                                         *)

Zone(at, before, after) == [at |-> at, before |-> before, after |-> after]

LocalMs(z, t) == t + (IF t < z.at THEN z.before ELSE z.after)

\* date.toLocaleDateString('en-CA')
toLocaleDateString(z, t) == LocalMs(z, t) \div DAY

\* date.getDay(): 1970-01-01 was a Thursday
getDay(z, t) == (toLocaleDateString(z, t) + 4) % 7

\* date.getHours()
getHours(z, t) == (LocalMs(z, t) % DAY) \div HOUR

\* new Date("YYYY-MM-DD"): midnight UTC of that date
DateParse(d) == d * DAY

-----------------------------------------------------------------------------
(* analyze *)

HEALTH_WARN_SESSION_HOURS == 3

HEALTH_WARN_CONSECUTIVE_DAYS == 7

MAX_INTERACTIVE_SESSION_HOURS == 8

RECURSIVE SumHours(_)
SumHours(ss) ==
    IF ss = <<>> THEN 0 ELSE Head(ss).durationMs + SumHours(Tail(ss))

IsInteractive(s) == s.durationMs <= MAX_INTERACTIVE_SESSION_HOURS * HOUR

interactiveSessions(ss) == SelectSeq(ss, IsInteractive)

\* mutant of maxSessionBase: no preference for interactive sessions
maxSessionBaseAll(ss) == ss

maxSessionBase(ss) ==
    IF Len(interactiveSessions(ss)) > 0 THEN interactiveSessions(ss) ELSE ss

\* base.reduce((max, s) => s.durationHours > max.durationHours ? s : max, max)
RECURSIVE ReduceMax(_, _)
ReduceMax(base, max) ==
    IF base = <<>> THEN max
    ELSE ReduceMax(Tail(base),
                   IF Head(base).durationMs > max.durationMs
                   THEN Head(base) ELSE max)

hasAutonomousSessions(ss) ==
    \E i \in DOMAIN ss :
        ss[i].durationMs > MAX_INTERACTIVE_SESSION_HOURS * HOUR

\* the keys of byDate
DateKeys(z, ss) == {toLocaleDateString(z, ss[i].start) : i \in DOMAIN ss}

byDate(z, ss) ==
    [d \in DateKeys(z, ss) |->
        LET OnDay(x) == toLocaleDateString(z, x.start) = d
        IN  [sessions |-> SelectSeq(ss, OnDay),
             hours |-> SumHours(SelectSeq(ss, OnDay))]]

\* Object.keys(byDate).sort()
RECURSIVE SortKeys(_)
SortKeys(S) ==
    IF S = {} THEN <<>>
    ELSE LET m == CHOOSE x \in S : \A y \in S : x <= y
         IN  <<m>> \o SortKeys(S \ {m})

\* Math.ceil((new Date(lastDay) - new Date(firstDay)) / DAY) + 1
totalDaysSpan(firstDay, lastDay) ==
    LET diff == DateParse(lastDay) - DateParse(firstDay)
    IN  (diff + DAY - 1) \div DAY + 1

dowHours(z, ss) ==
    [w \in 0..6 |->
        LET OnDow(x) == getDay(z, x.start) = w
        IN  SumHours(SelectSeq(ss, OnDow))]

hourBuckets(z, ss) ==
    [h \in 0..23 |->
        LET InHour(x) == getHours(z, x.start) = h
        IN  SumHours(SelectSeq(ss, InHour))]

\* projectHours, as Object.entries lists it: one [name, hours] per label, in
\* the order of first appearance
RECURSIVE projectHours(_)
projectHours(ss) ==
    IF ss = <<>> THEN <<>>
    ELSE LET rest == projectHours(SubSeq(ss, 1, Len(ss) - 1))
             s == ss[Len(ss)]
         IN  IF \E i \in DOMAIN rest : rest[i].name = s.project
             THEN [i \in DOMAIN rest |->
                     IF rest[i].name = s.project
                     THEN [rest[i] EXCEPT !.hours = @ + s.durationMs]
                     ELSE rest[i]]
             ELSE Append(rest, [name |-> s.project, hours |-> s.durationMs])

\* mutant of StreakLoop: currentStreak not reset after a gap
RECURSIVE StreakLoopNoReset(_, _, _, _)
StreakLoopNoReset(days, i, maxStreak, currentStreak) ==
    IF i > Len(days) THEN maxStreak
    ELSE IF DateParse(days[i]) - DateParse(days[i - 1]) = DAY
         THEN StreakLoopNoReset(days, i + 1, Max(maxStreak, currentStreak + 1),
                                currentStreak + 1)
         ELSE StreakLoopNoReset(days, i + 1, maxStreak, currentStreak)

\* for (let i = 1; i < activeDays.length; i++) { ... diffDays === 1 ... }
RECURSIVE StreakLoop(_, _, _, _)
StreakLoop(days, i, maxStreak, currentStreak) ==
    IF i > Len(days) THEN maxStreak
    ELSE IF DateParse(days[i]) - DateParse(days[i - 1]) = DAY
         THEN StreakLoop(days, i + 1, Max(maxStreak, currentStreak + 1),
                         currentStreak + 1)
         ELSE StreakLoop(days, i + 1, maxStreak, 1)

\* mutant of IsLong: the 3h threshold taken exclusive
IsLongStrict(s) == s.durationMs > HEALTH_WARN_SESSION_HOURS * HOUR

IsLong(s) == s.durationMs >= HEALTH_WARN_SESSION_HOURS * HOUR

\* x.toFixed(1) of the hours num / den, in tenths of an hour
ToFixed1(num, den) == (2 * num + 360000 * den) \div (720000 * den)

\* a warning: its level, and its message as the template and the value put
\* into it
Warning(level, template, value) ==
    [level |-> level, msg |-> [template |-> template, value |-> value]]

warnings(ss, nDays, maxStreak) ==
    LET totalHours == SumHours(ss)
        longSessions == SelectSeq(ss, IsLong)
    IN  (IF Len(longSessions) > 0
         THEN <<Warning("warn", "session(s) over 3h without a break",
                        Len(longSessions))>>
         ELSE <<>>)
        \o (IF maxStreak >= HEALTH_WARN_CONSECUTIVE_DAYS
            THEN <<Warning("warn", "consecutive days of AI usage", maxStreak)>>
            ELSE <<>>)
        \o (IF totalHours > 2 * HOUR * Len(ss)
            THEN <<Warning("info", "Average session is",
                           ToFixed1(totalHours, Len(ss)))>>
            ELSE <<>>)
        \o (IF totalHours > 6 * HOUR * nDays
            THEN <<Warning("alert", "h/day average",
                           ToFixed1(totalHours, nDays))>>
            ELSE <<>>)

\* activeDays.filter(d => d > sevenDaysAgo && d <= today)
recent7(z, clock, activeDays) ==
    LET today == toLocaleDateString(z, clock)
        sevenDaysAgo == toLocaleDateString(z, clock - 7 * 24 * HOUR)
        InWindow(d) == d > sevenDaysAgo /\ d <= today
    IN  SelectSeq(activeDays, InWindow)

RECURSIVE SumByDate(_, _)
SumByDate(days, bd) ==
    IF days = <<>> THEN 0 ELSE bd[Head(days)].hours + SumByDate(Tail(days), bd)

NoStats == [kind |-> "none"]

\* a quotient of hours, kept exact
Ratio(num, den) == [num |-> num, den |-> den]

analyze(ss, z, clock) ==
    IF Len(ss) = 0 THEN NoStats
    ELSE LET days == SortKeys(DateKeys(z, ss))
             bd == byDate(z, ss)
             streak == StreakLoop(days, 2, 1, 1)
             base == maxSessionBase(ss)
             r7 == recent7(z, clock, days)
         IN  [kind |-> "stats",
              totalSessions |-> Len(ss),
              totalHours |-> SumHours(ss),
              avgDuration |-> Ratio(SumHours(ss), Len(ss)),
              maxSession |-> ReduceMax(base, base[1]),
              hasAutonomousSessions |-> hasAutonomousSessions(ss),
              activeDays |-> days,
              totalDaysSpan |-> totalDaysSpan(days[1], days[Len(days)]),
              byDate |-> bd,
              dowHours |-> dowHours(z, ss),
              hourBuckets |-> hourBuckets(z, ss),
              projectHours |-> projectHours(ss),
              maxStreak |-> streak,
              warnings |-> warnings(ss, Len(days), streak),
              firstDay |-> days[1],
              lastDay |-> days[Len(days)],
              recent7Days |-> Len(r7),
              recent7Hours |-> SumByDate(r7, bd),
              avgDailyHours |-> Ratio(SumHours(ss), Len(days))]

-----------------------------------------------------------------------------
(* buildJsonOutput and display *)

\* Math.round(hours * 100) / 100, in hundredths of an hour
Round2(ms) == (ms + 18000) \div 36000

Round2Ratio(r) == (2 * r.num + 36000 * r.den) \div (72000 * r.den)

\* mutant of SortByHoursDesc: the entries left in order of first appearance
EntriesOrder(es) == es

\* entries.sort((a, b) => b[1] - a[1]): stable, larger hours first
RECURSIVE SortByHoursDesc(_)
SortByHoursDesc(es) ==
    IF es = <<>> THEN <<>>
    ELSE LET rest == SortByHoursDesc(SubSeq(es, 1, Len(es) - 1))
             x == es[Len(es)]
             k == Cardinality({i \in DOMAIN rest : rest[i].hours >= x.hours})
         IN  SubSeq(rest, 1, k) \o <<x>> \o SubSeq(rest, k + 1, Len(rest))

topProjects(st) ==
    LET sorted == SortByHoursDesc(st.projectHours)
    IN  [i \in DOMAIN sorted |->
            [name |-> sorted[i].name, hours |-> Round2(sorted[i].hours)]]

buildJsonOutput(z, st) ==
    [kind |-> "json",
     totalSessions |-> st.totalSessions,
     totalHours |-> Round2(st.totalHours),
     activeDays |-> Len(st.activeDays),
     totalDaysSpan |-> st.totalDaysSpan,
     firstSeen |-> st.firstDay,
     lastSeen |-> st.lastDay,
     averages |-> [perSession |-> Round2Ratio(st.avgDuration),
                   perDay |-> Round2Ratio(st.avgDailyHours)],
     longestSession |-> [hours |-> Round2(st.maxSession.durationMs),
                         date |-> toLocaleDateString(z, st.maxSession.start),
                         project |-> st.maxSession.project],
     hoursByDayOfWeek |-> [w \in 0..6 |-> Round2(st.dowHours[w])],
     topProjects |-> topProjects(st),
     streak |-> st.maxStreak,
     healthWarnings |-> [i \in DOMAIN st.warnings |-> st.warnings[i].msg],
     last7Days |-> [hours |-> Round2(st.recent7Hours),
                    activeDays |-> st.recent7Days]]

\* the report, by its sections; the bar charts are left out
display(z, st) ==
    LET sorted == SortByHoursDesc(st.projectHours)
        shown == SubSeq(sorted, 1, Min(7, Len(sorted)))
    IN  [kind |-> "report",
         overview |-> [sessions |-> st.totalSessions,
                       totalHours |-> ToFixed1(st.totalHours, 1),
                       activeDays |-> Len(st.activeDays),
                       totalDaysSpan |-> st.totalDaysSpan,
                       firstSeen |-> st.firstDay,
                       lastSeen |-> st.lastDay],
         averages |-> [perSession |-> ToFixed1(st.avgDuration.num,
                                               st.avgDuration.den),
                       perDay |-> ToFixed1(st.avgDailyHours.num,
                                           st.avgDailyHours.den),
                       last7Hours |-> ToFixed1(st.recent7Hours, 1),
                       last7Days |-> st.recent7Days],
         longest |-> [hours |-> ToFixed1(st.maxSession.durationMs, 1),
                      date |-> toLocaleDateString(z, st.maxSession.start),
                      project |-> st.maxSession.project],
         footnote |-> st.hasAutonomousSessions,
         topProjects |-> [i \in DOMAIN shown |->
                             [name |-> shown[i].name,
                              hours |-> ToFixed1(shown[i].hours, 1)]],
         streak |-> st.maxStreak,
         warnings |-> st.warnings,
         tips |-> [timer |-> 2 * st.avgDuration.num
                                 > 3 * HOUR * st.avgDuration.den,
                   freeDay |-> st.maxStreak >= 5,
                   standing |-> st.avgDailyHours.num
                                    > 4 * HOUR * st.avgDailyHours.den]]

-----------------------------------------------------------------------------
(* main after the scan: the sessions scanSessions returned, the time zone   *)
(* of the process and the clock                                             *)

\* sessions in a scan result of mixed sessions
MaxSessions == 3

\* the last calendar day, counted from day 0, of a one-session-a-day history
MaxDay == 10

At(day, hour, minute) == day * DAY + hour * HOUR + minute * 60000

Minutes(h, m) == h * HOUR + m * 60000

\* a session as scanSessions records it
Ran(project, start, durationMs) ==
    Session(project, DateOf(start), DateOf(start + durationMs), 120)

Foo == <<"foo">>

Tmp == <<"/tmp">>

\* sessions of mixed lengths, among them the lengths at which analyze
\* changes its answer: 3h and 8h, and one millisecond from them
SessionChoices ==
    { Ran(Foo, At(1, 9, 0), 2 * HOUR),
      Ran(Tmp, At(1, 9, 0), 2 * HOUR),
      Ran(Tmp, At(1, 9, 0), 2 * HOUR + 1),
      Ran(Foo, At(1, 23, 30), 3 * HOUR - 3600),
      Ran(Tmp, At(1, 23, 30), 3 * HOUR),
      Ran(Foo, At(1, 23, 30), 5 * HOUR),
      Ran(Tmp, At(2, 10, 0), 8 * HOUR),
      Ran(Foo, At(2, 10, 0), 8 * HOUR + 1),
      Ran(Foo, At(2, 10, 0), 10 * HOUR) }

\* scanSessions returns its list sorted by start
MixedInputs ==
    { ss \in SeqsUpTo(SessionChoices, MaxSessions) :
        \A i \in 1..(Len(ss) - 1) : ss[i].start <= ss[i + 1].start }

DailyDurations == {HOUR, Minutes(2, 30), 7 * HOUR}

\* one session at noon UTC on each day of a set of days
DailyInputs ==
    { [i \in 1..Cardinality(days) |->
          Ran(Foo, At(SortKeys(days)[i], 12, 0), d)] :
        days \in (SUBSET (0..MaxDay)) \ {{}}, d \in DailyDurations }

\* the time zone and the clock: no daylight saving, clocks put forward one
\* hour in the night of day 4, clocks put back one hour in that night
EnvChoices ==
    { [tz |-> Zone(0, 0, 0), now |-> At(8, 12, 0)],
      [tz |-> Zone(0, 0, 0), now |-> At(5, 12, 0)],
      [tz |-> Zone(At(4, 2, 0), 0, HOUR), now |-> At(7, 23, 30)],
      [tz |-> Zone(At(4, 2, 0), HOUR, 0), now |-> At(8, 23, 30)] }

\* scanSessions has returned ss
ScanReturned(ss) ==
    /\ pc = "done"
    /\ projectDirs = <<>>
    /\ pi = 1
    /\ files = <<>>
    /\ fi = 1
    /\ subFiles = <<>>
    /\ si = 1
    /\ fr = NoFrame
    /\ handles = 0
    /\ sessions = ss
    /\ result = ss
    /\ fsLeft = 0

InitMain ==
    /\ input \in MixedInputs \cup DailyInputs
    /\ ScanReturned(input)
    /\ \E e \in EnvChoices : tz = e.tz /\ now = e.now
    /\ stats = NoStats
    /\ out = [kind |-> "none"]

\* if (sessions.length === 0) { ...; process.exit(1) }
NoSessions ==
    /\ out.kind = "none"
    /\ Len(input) = 0
    /\ out' = [kind |-> "error", error |-> "No sessions found"]
    /\ UNCHANGED <<tz, now, input, stats>>
    /\ UNCHANGED scanVars

\* const stats = analyze(sessions)
Analyze ==
    /\ out.kind = "none"
    /\ stats.kind = "none"
    /\ Len(input) # 0
    /\ stats' = analyze(input, tz, now)
    /\ UNCHANGED <<tz, now, input, out>>
    /\ UNCHANGED scanVars

\* --json: console.log(JSON.stringify(buildJsonOutput(stats), null, 2))
BuildJsonOutput ==
    /\ out.kind = "none"
    /\ stats.kind = "stats"
    /\ out' = buildJsonOutput(tz, stats)
    /\ UNCHANGED <<tz, now, input, stats>>
    /\ UNCHANGED scanVars

\* display(stats)
Display ==
    /\ out.kind = "none"
    /\ stats.kind = "stats"
    /\ out' = display(tz, stats)
    /\ UNCHANGED <<tz, now, input, stats>>
    /\ UNCHANGED scanVars

NextMain ==
    \/ NoSessions
    \/ Analyze
    \/ BuildJsonOutput
    \/ Display

SpecMain == InitMain /\ [][NextMain]_vars

-----------------------------------------------------------------------------
(* Claims about the scan *)

ReaderPcs == {"readHead", "fstat", "readTail", "close"}

AddSessionPcs == {"stat", "open", "decide"} \cup ReaderPcs

IsPrefix(a, b) == Len(a) <= Len(b) /\ SubSeq(b, 1, Len(a)) = a

Range(f) == {f[i] : i \in DOMAIN f}

Count(f, x) == Cardinality({i \in DOMAIN f : f[i] = x})

IsPermutation(a, b) ==
    /\ Len(a) = Len(b)
    /\ \A x \in Range(a) \cup Range(b) : Count(a, x) = Count(b, x)

InRange(s) == s.durationMs >= 0 /\ s.durationMs < 168 * HOUR

\* what the claim asks of a file for it to contribute: the size stat gave,
\* the two instants read out of it, and their distance
Contributes(size, startTs, endTs) ==
    /\ size >= 50
    /\ startTs.kind = "date"
    /\ endTs.kind = "date"
    /\ 0 <= endTs.ms - startTs.ms
    /\ endTs.ms - startTs.ms < 7 * 24 * HOUR

Extracted(line) == IF fr.res = "result" THEN parseTimestamp(line) ELSE NullTs

\* C1, one addSession call: the sessions array changes only at the end of a
\* call, by one push, and exactly when the file contributes
C1_Call ==
    LET startTs == Extracted(fr.firstLine)
        endTs == Extracted(fr.lastLine)
        keep == Contributes(fr.size, startTs, endTs)
    IN  /\ sessions' # sessions => pc = "decide"
        /\ pc = "decide" /\ pc' # "decide" =>
              IF keep
              THEN /\ Len(sessions') = Len(sessions) + 1
                   /\ IsPrefix(sessions, sessions')
                   /\ sessions'[Len(sessions')].start = startTs.ms
                   /\ sessions'[Len(sessions')].end = endTs.ms
                   /\ sessions'[Len(sessions')].durationMs = endTs.ms - startTs.ms
              ELSE sessions' = sessions
        /\ pc \in {"stat", "open"} /\ pc' \notin AddSessionPcs =>
              sessions' = sessions

\* C1, the output: every session held or returned is in range, and the list
\* returned holds as many sessions as were pushed
C1_Output ==
    /\ \A i \in DOMAIN sessions : InRange(sessions[i])
    /\ \A i \in DOMAIN result : InRange(result[i])
    /\ pc = "done" => Len(result) = Len(sessions)

\* C1: after scanSessions, a file has contributed a Session if and only if
\* its size is at least 50 bytes, both timestamps were extracted and
\* 0 <= end - start < 7 days; every Session of the output has
\* 0 <= durationHours < 168; a zero-duration file is kept; a file with
\* start > end or a span of 7 days or more is never present.
C1_OnlyValidFilesContribute == [][C1_Call]_vars /\ []C1_Output

\* a finished scan that kept a zero-duration session and one a millisecond
\* short of 7 days
C1_Witness ==
    /\ pc = "done"
    /\ \E i \in DOMAIN result : result[i].durationMs = 0
    /\ \E i \in DOMAIN result : result[i].durationMs = WEEK - 1

IsSortedByStart(ss) ==
    \A i \in 1..(Len(ss) - 1) : ss[i].start <= ss[i + 1].start

\* C2: the list returned by scanSessions is sorted ascending by start,
\* whatever the order of the directory listings, and is a permutation of the
\* sessions accepted during the walk.
C2_OutputSortedPermutation ==
    pc = "done" => IsSortedByStart(result) /\ IsPermutation(result, sessions)

\* a finished scan whose walk met three sessions out of start order
C2_Witness ==
    /\ pc = "done"
    /\ Len(result) = 3
    /\ ~IsSortedByStart(sessions)
    /\ result[1].start < result[3].start

ScanPcs ==
    {"start", "proj", "list", "main", "sub", "sublist", "subfiles", "sort",
     "done"} \cup AddSessionPcs

\* C3, one step: the loops pass their items one by one and end only after
\* the last one, every *.jsonl entry reached gets its addSession call, a
\* session once pushed stays, a file whose operations all succeeded and that
\* contributes is pushed, and an unreadable root returns the empty list
C3_Step ==
    /\ pi' = pi \/ pi' = pi + 1
    /\ pc # "sort" /\ pc' = "sort" => pc = "proj" /\ pi > Len(projectDirs)
    /\ pc = "main" /\ pc' = "sub" => fi > Len(files)
    /\ pc = "sub" /\ pc' = "proj" => fi > Len(files)
    /\ pc = "subfiles" /\ pc' = "sub" => si > Len(subFiles)
    /\ fi' \notin {fi, fi + 1} => fi' = 1 /\ fi > Len(files)
    /\ si' \notin {si, si + 1} => si' = 1 /\ si > Len(subFiles)
    /\ files' # files => pc = "list" \/ (pc = "sub" /\ fi > Len(files))
    /\ subFiles' # subFiles =>
          pc = "sublist" \/ (pc = "subfiles" /\ si > Len(subFiles))
    /\ pc = "main" /\ fi <= Len(files) /\ files[fi] = "jsonl" => pc' = "stat"
    /\ pc = "subfiles" /\ si <= Len(subFiles) /\ subFiles[si] = "jsonl" =>
          pc' = "stat"
    /\ IsPrefix(sessions, sessions')
    /\ pc = "decide" /\ pc' # "decide" /\ fr.res = "result"
          /\ Contributes(fr.size, parseTimestamp(fr.firstLine),
                         parseTimestamp(fr.lastLine))
          => Len(sessions') = Len(sessions) + 1
    /\ pc = "start" /\ pc' = "done" => result' = <<>>

\* C3, every state: no exception has left scanSessions, and a scan that
\* returned has passed every project directory and returns what was pushed
C3_State ==
    /\ pc \in ScanPcs
    /\ pc = "done" =>
          /\ projectDirs = <<>> \/ pi = Len(projectDirs) + 1
          /\ IsPermutation(result, sessions)

\* C3: a failing stat, readdir, open or read on one project directory,
\* sub-agent directory or file never aborts the scan of the others:
\* scanSessions terminates normally, its output holds every valid session of
\* every directory and file whose own operations succeeded, and an
\* unreadable projects root yields the empty list.
C3_FailuresSkipOneItem ==
    [][C3_Step]_vars /\ []C3_State /\ <>(pc = "done")

\* a read has just failed on a file while a session is already held and
\* another entry of the same directory is still to be scanned
C3_Witness ==
    /\ pc = "decide"
    /\ fr.res = "throw"
    /\ fr.ret = "main"
    /\ sessions # <<>>
    /\ fi < Len(files)
    /\ files[fi + 1] = "jsonl"

\* C4: every handle opened by readFirstLastLine is closed before the call
\* completes, on every exit path; no handle is open when scanSessions
\* returns, and at most one is open at any moment of the scan.
C4_HandlesClosed ==
    /\ handles \in {0, 1}
    /\ handles = 1 <=> pc \in ReaderPcs
    /\ pc = "done" => handles = 0

\* readFirstLastLine has just completed by an exception after its open, and
\* the handle is closed
C4_Witness ==
    /\ pc = "decide"
    /\ fr.res = "throw"
    /\ handles = 0

-----------------------------------------------------------------------------
(* Claims about the statistics *)

Durations(ss) == [i \in DOMAIN ss |-> ss[i].durationMs]

\* the distinct local dates on which a session of the input started
ActiveDates == {toLocaleDateString(tz, input[i].start) : i \in DOMAIN input}

\* the hours of the input's sessions whose index is in I
RECURSIVE HoursOf(_)
HoursOf(I) ==
    IF I = {} THEN 0
    ELSE LET i == CHOOSE j \in I : TRUE
         IN  input[i].durationMs + HoursOf(I \ {i})

\* C5: for every non-empty session list maxSession is a session of maximal
\* duration among the sessions of at most 8h when there is one, and among
\* all sessions when every session exceeds 8h; 2h, 5h, 10h gives 5h and a
\* lone 10h session gives 10h.
C5_MaxSessionPrefersInteractive ==
    stats.kind = "stats" =>
        LET short == {i \in DOMAIN input : input[i].durationMs <= 8 * HOUR}
            cands == IF short # {} THEN short ELSE DOMAIN input
            m == stats.maxSession
        IN  /\ \E i \in cands : input[i] = m
            /\ \A i \in cands : input[i].durationMs <= m.durationMs
            /\ Durations(input) = <<2 * HOUR, 5 * HOUR, 10 * HOUR>>
                   => m.durationMs = 5 * HOUR
            /\ Durations(input) = <<10 * HOUR>> => m.durationMs = 10 * HOUR

\* sessions of 2h, 5h and 10h were analyzed and the 5h one was chosen
C5_Witness ==
    /\ stats.kind = "stats"
    /\ Durations(input) = <<2 * HOUR, 5 * HOUR, 10 * HOUR>>
    /\ stats.maxSession.durationMs = 5 * HOUR

\* the length of the longest run d, d+1, ..., d+k-1 inside a set of dates
LongestRun(D) ==
    CHOOSE k \in 1..Cardinality(D) :
        /\ \E d \in D : \A j \in 0..(k - 1) : d + j \in D
        /\ ~ \E d \in D : \A j \in 0..k : d + j \in D

\* C6: maxStreak is the length of the longest run of calendar-consecutive
\* dates among the distinct active dates; D, D+1, D+2, D+10 give 3, a single
\* active day gives 1, and 1 <= maxStreak <= number of active days.
C6_MaxStreakIsLongestRun ==
    stats.kind = "stats" =>
        /\ stats.maxStreak = LongestRun(ActiveDates)
        /\ stats.maxStreak >= 1
        /\ stats.maxStreak <= Cardinality(ActiveDates)
        /\ Cardinality(ActiveDates) = 1 => stats.maxStreak = 1
        /\ \A d \in ActiveDates :
               ActiveDates = {d, d + 1, d + 2, d + 10} => stats.maxStreak = 3

\* sessions on days D, D+1, D+2 and D+10 were analyzed: the streak is 3
C6_Witness ==
    /\ stats.kind = "stats"
    /\ ActiveDates = {0, 1, 2, 10}
    /\ stats.maxStreak = 3

\* the rules of analyze that apply to the input, in the order of the claim,
\* each as its level and message template
C7_Expected ==
    (IF \E i \in DOMAIN input : input[i].durationMs >= 3 * HOUR
     THEN <<(<<"warn", "session(s) over 3h without a break">>)>> ELSE <<>>)
    \o (IF LongestRun(ActiveDates) >= 7
        THEN <<(<<"warn", "consecutive days of AI usage">>)>> ELSE <<>>)
    \o (IF HoursOf(DOMAIN input) > 2 * HOUR * Len(input)
        THEN <<(<<"info", "Average session is">>)>> ELSE <<>>)
    \o (IF HoursOf(DOMAIN input) > 6 * HOUR * Cardinality(ActiveDates)
        THEN <<(<<"alert", "h/day average">>)>> ELSE <<>>)

C8_FlagMeansExcluded ==
    stats.kind = "stats" =>
        LET base == maxSessionBase(input)
            excluded ==
                \E i \in DOMAIN input :
                    /\ input[i].durationMs > 8 * HOUR
                    /\ \A j \in DOMAIN base : base[j] # input[i]
        IN  /\ stats.hasAutonomousSessions <=> excluded
            /\ (out.kind = "report" /\ out.footnote)
                   => stats.maxSession.durationMs <= 8 * HOUR

\* C9 (as stated): for every current instant recent7Days is the number of
\* active dates d with today - 7 < d <= today in local calendar dates,
\* recent7Hours is the sum of the hours of those dates, and recent7Days is
\* never more than 7.
C9_Recent7IsCalendarWindow ==
    stats.kind = "stats" =>
        LET today == toLocaleDateString(tz, now)
            InWindow(d) == today - 7 < d /\ d <= today
            window == {d \in ActiveDates : InWindow(d)}
        IN  /\ stats.recent7Days = Cardinality(window)
            /\ stats.recent7Hours
               = HoursOf({i \in DOMAIN input :
                            InWindow(toLocaleDateString(tz, input[i].start))})
            /\ stats.recent7Days <= 7

\* topProjects has one entry per distinct project label of the input
OnePerLabel(tp) ==
    /\ {tp[i].name : i \in DOMAIN tp}
       = {input[i].project : i \in DOMAIN input}
    /\ \A i, j \in DOMAIN tp : tp[i].name = tp[j].name => i = j

\* C10 (as stated): topProjects has one entry per distinct project label and
\* every two adjacent entries p, q have p.hours > q.hours, also when totals
\* are equal or become equal by rounding.
C10_TopProjectsStrictlyDescending ==
    out.kind = "json" =>
        /\ OnePerLabel(out.topProjects)
        /\ \A i \in 1..(Len(out.topProjects) - 1) :
               out.topProjects[i].hours > out.topProjects[i + 1].hours

\* C10 (amended): topProjects has one entry per distinct project label and
\* every two adjacent entries p, q have p.hours >= q.hours; projects whose
\* rounded totals are equal are adjacent with equal hours.
C10_TopProjectsDescending ==
    out.kind = "json" =>
        /\ OnePerLabel(out.topProjects)
        /\ \A i \in 1..(Len(out.topProjects) - 1) :
               out.topProjects[i].hours >= out.topProjects[i + 1].hours

\* two projects whose totals differ by a millisecond were put out with the
\* same rounded hours
C10_Witness ==
    /\ out.kind = "json"
    /\ Len(out.topProjects) = 2
    /\ stats.projectHours[1].hours # stats.projectHours[2].hours
    /\ out.topProjects[1].hours = out.topProjects[2].hours

-----------------------------------------------------------------------------
(* Claims about readFirstLastLine *)

\* readFirstLastLine leaves its try block in this step, having read file f
ReaderLeaves(f) ==
    /\ pc \in {"readHead", "fstat", "readTail"}
    /\ pc' = "close"
    /\ fr.file = f

\* an empty file gives no content, a file under 2 bytes gives lastLine =
\* firstLine; a failed read or stat apart
SmallFileCases(f) ==
    /\ FileSize(f) = 0 => fr'.res \in {"null", "throw"}
    /\ fr'.res = "null" => FileSize(f) = 0
    /\ (fr'.res = "result" /\ FileSize(f) < 2) => fr'.lastLine = fr'.firstLine

\* C11 (as stated): for every non-empty file of a single line, with or
\* without a line terminator and whatever the line's length against the 8 KiB
\* head read and the 64 KiB tail read, the result has lastLine = firstLine;
\* an empty file gives no content and a file under 2 bytes lastLine =
\* firstLine.
C11_Step ==
    \A f \in ReaderFiles :
        ReaderLeaves(f) =>
            /\ SmallFileCases(f)
            /\ (fr'.res = "result" /\ Len(f.lines) = 1)
                   => fr'.lastLine = fr'.firstLine

C11_AmendedStep ==
    \A f \in ReaderFiles :
        ReaderLeaves(f) =>
            /\ SmallFileCases(f)
            /\ (fr'.res = "result" /\ Len(f.lines) = 1) =>
                   LET l == f.lines[1]
                       cut == IF FileSize(f) > 65536
                              THEN FileSize(f) - 65536 ELSE 0
                   IN  IF l.len <= 8192 \/ l.blank
                       THEN fr'.lastLine = fr'.firstLine
                       ELSE /\ fr'.firstLine = Str(l, 0, 8192)
                            /\ fr'.lastLine = Str(l, cut, l.len)
                            /\ fr'.lastLine # fr'.firstLine

====
